---- MODULE Spec2Model ----
(***************************************************************************)
(* Model of core/swift3Action/buildandrecord.py: one run builds the Swift  *)
(* package, scans the verbose trace for the compile and the link command,  *)
(* and appends a shell script replaying them to a fixed destination file.  *)
(* The destination file outlives a run; the generated script is executed   *)
(* by bash once a run has finished.                                        *)
(*                                                                         *)
(* Text is a sequence of atoms: an atom is a chunk of characters that the  *)
(* program never looks inside.  The space and the line terminator are      *)
(* atoms of their own, so prefix tests and line splitting work on the      *)
(* text as the code's do on bytes.                                         *)
(***************************************************************************)
EXTENDS Integers, Sequences, FiniteSets, TLC

\* ---- bounds -------------------------------------------------------------
MaxTraceLen == 3
MaxRuns == 2

\* ---- atoms --------------------------------------------------------------
SP == " "
NL == "\n"
DQ == "\""

\* Python's None, and a name that is not bound yet; no text equals either.
None == <<"<None>">>
Unbound == <<"<unbound>">>

\* ---- settings (lines 21-26) ----------------------------------------------
COMPILE_PREFIX ==
    <<"/usr/bin/swiftc", SP, "-module-name", SP, "Action", SP>>

LINKER_PREFIX ==
    <<"/usr/bin/swiftc", SP, "-Xlinker", SP, "'-rpath=$ORIGIN'", SP,
      "'-L/swift3Action/spm-build/.build/release'", SP, "-o", SP,
      "'/swift3Action/spm-build/.build/release/Action'">>

SUPPRESS_FLAG == <<SP, "-suppress-warnings">>

MODE_EXEC == "0777"

\* ---- the traces the build tool may print ---------------------------------
CompileLineA == COMPILE_PREFIX \o <<"main.swift">>
CompileLineB == COMPILE_PREFIX \o <<"main.swift", SP, "-O">>
LinkLineA == LINKER_PREFIX \o <<SP, "main.o">>
LinkLineB == LINKER_PREFIX \o <<SP, "main.o", SP, "-lm">>
\* the compile prefix without its final space: not a compile line
NearMissLine == <<"/usr/bin/swiftc", SP, "-module-name", SP, "Action">>

TraceLines == {CompileLineA, CompileLineB, LinkLineA, LinkLineB, NearMissLine}

Traces == UNION {[1..n -> TraceLines] : n \in 0..MaxTraceLen}

BuildStatuses == {0, 1}

\* the destination file before the first run: absent/empty, or a leftover
StaleScript == <<"#", SP, "stale", NL>>
InitialScripts == {<<>>, StaleScript}

\* ---- text helpers --------------------------------------------------------
RECURSIVE JoinLines(_)
JoinLines(ls) ==
    IF ls = <<>> THEN <<>> ELSE Head(ls) \o <<NL>> \o JoinLines(Tail(ls))

\* index of the first line terminator of s, Len(s)+1 when there is none
RECURSIVE FirstNL(_, _)
FirstNL(s, k) ==
    IF k > Len(s) THEN k ELSE IF s[k] = NL THEN k ELSE FirstNL(s, k + 1)

\* str.splitlines(): no empty last line after a final terminator
RECURSIVE splitlines(_)
splitlines(s) ==
    IF s = <<>> THEN <<>>
    ELSE LET k == FirstNL(s, 1)
         IN  <<SubSeq(s, 1, k - 1)>> \o splitlines(SubSeq(s, k + 1, Len(s)))

\* str.startswith(prefix)
StartsWith(s, p) == Len(s) >= Len(p) /\ SubSeq(s, 1, Len(p)) = p

\* ---- the program's steps as functions ------------------------------------
\* variant: the exit status of the build tool is not looked at
CheckOutputRaises_Never(status) == FALSE

\* check_output raises CalledProcessError on a non-zero exit status
CheckOutputRaises(status) == status # 0

\* variant: the flag is appended twice
AddFlag_Twice(cmd) == cmd \o SUPPRESS_FLAG \o SUPPRESS_FLAG

\* line 44
AddFlag(cmd) == cmd \o SUPPRESS_FLAG

\* variant: a command that is already set is kept
ExtractStep_FirstWins(cmds, instruction) ==
    IF StartsWith(instruction, COMPILE_PREFIX)
    THEN IF cmds[1] = None THEN <<AddFlag(instruction), cmds[2]>> ELSE cmds
    ELSE IF StartsWith(instruction, LINKER_PREFIX)
         THEN IF cmds[2] = None THEN <<cmds[1], instruction>> ELSE cmds
         ELSE cmds

\* variant: a link line is only taken once the compile line was seen
ExtractStep_LinkAfterCompile(cmds, instruction) ==
    IF StartsWith(instruction, COMPILE_PREFIX)
    THEN <<AddFlag(instruction), cmds[2]>>
    ELSE IF StartsWith(instruction, LINKER_PREFIX) /\ cmds[1] # None
         THEN <<cmds[1], instruction>>
         ELSE cmds

\* the loop body, lines 40-47, on the pair <<compileCommand, linkCommand>>
ExtractStep(cmds, instruction) ==
    IF StartsWith(instruction, COMPILE_PREFIX)
    THEN <<AddFlag(instruction), cmds[2]>>
    ELSE IF StartsWith(instruction, LINKER_PREFIX)
         THEN <<cmds[1], instruction>>
         ELSE cmds

\* lines 34-47 as a function of the trace lines
RECURSIVE ExtractFrom(_, _)
ExtractFrom(cmds, lines) ==
    IF lines = <<>> THEN cmds
    ELSE ExtractFrom(ExtractStep(cmds, Head(lines)), Tail(lines))

Extract(lines) == ExtractFrom(<<None, None>>, lines)

\* variant: one command is enough
BothFound_Either(cc, lc) == cc # None \/ lc # None

\* line 50
BothFound(cc, lc) == cc # None /\ lc # None

IF_LINE ==
    <<"if", SP, "[[", SP, DQ, "$swiftStatus", DQ, SP, "-eq", SP,
      DQ, "0", DQ, SP, "]];", SP, "then">>

\* variant: the link command is not guarded by the compile status
ScriptBody_NoGate(cc, lc) ==
       <<"#!/bin/bash", NL>>
    \o <<"echo", SP, DQ, "Compiling", DQ, NL>>
    \o cc \o <<NL>>
    \o <<"swiftStatus=$?", NL>>
    \o <<"echo", SP, "swiftc", SP, "status", SP, "is", SP, "$swiftStatus", NL>>
    \o <<"echo", SP, DQ, "Linking", DQ, NL>>
    \o lc

\* variant: the then-branch reports after the link command
ScriptBody_EchoAfterLink(cc, lc) ==
       <<"#!/bin/bash", NL>>
    \o <<"echo", SP, DQ, "Compiling", DQ, NL>>
    \o cc \o <<NL>>
    \o <<"swiftStatus=$?", NL>>
    \o <<"echo", SP, "swiftc", SP, "status", SP, "is", SP, "$swiftStatus", NL>>
    \o IF_LINE \o <<NL>>
    \o <<"echo", SP, DQ, "Linking", DQ, NL>>
    \o lc \o <<NL>>
    \o <<"echo", SP, DQ, "Linked", DQ, NL>>
    \o <<"else", NL>>
    \o <<">2&", SP, "echo", SP, DQ, "Action did not compile", DQ, NL>>
    \o <<"exit", SP, "1", NL>>
    \o <<"fi">>

\* variant: the last write ends the line
ScriptBody_FinalNewline(cc, lc) ==
       <<"#!/bin/bash", NL>>
    \o <<"echo", SP, DQ, "Compiling", DQ, NL>>
    \o cc \o <<NL>>
    \o <<"swiftStatus=$?", NL>>
    \o <<"echo", SP, "swiftc", SP, "status", SP, "is", SP, "$swiftStatus", NL>>
    \o IF_LINE \o <<NL>>
    \o <<"echo", SP, DQ, "Linking", DQ, NL>>
    \o lc \o <<NL>>
    \o <<"else", NL>>
    \o <<">2&", SP, "echo", SP, DQ, "Action did not compile", DQ, NL>>
    \o <<"exit", SP, "1", NL>>
    \o <<"fi", NL>>

\* lines 56-67: the text written by the twelve write calls
ScriptBody(cc, lc) ==
       <<"#!/bin/bash", NL>>
    \o <<"echo", SP, DQ, "Compiling", DQ, NL>>
    \o cc \o <<NL>>
    \o <<"swiftStatus=$?", NL>>
    \o <<"echo", SP, "swiftc", SP, "status", SP, "is", SP, "$swiftStatus", NL>>
    \o IF_LINE \o <<NL>>
    \o <<"echo", SP, DQ, "Linking", DQ, NL>>
    \o lc \o <<NL>>
    \o <<"else", NL>>
    \o <<">2&", SP, "echo", SP, DQ, "Action did not compile", DQ, NL>>
    \o <<"exit", SP, "1", NL>>
    \o <<"fi">>

\* variant: the file is opened with "w"
WriteAppend_Truncate(content, body) == body

\* open(GENERATED_BUILD_SCRIPT, "a") ... write
WriteAppend(content, body) == content \o body

\* ---- bash, as far as the generated script uses it --------------------------
CmdStatuses == {0, 1, 2}

\* bash reads the script file line by line
ShLines(content) == splitlines(content)

IsComment(l) == l = <<>> \/ Head(l) \in {"#", "#!/bin/bash"}
IsEcho(l) == StartsWith(l, <<"echo", SP>>)
\* ">2&" is the redirection ">2" (to a file named 2) of an empty command put
\* in the background by "&"; the rest of the line is the next command
IsFileRedirect(l) == StartsWith(l, <<">2&", SP>>)
\* ">&2" duplicates the error stream onto the command's standard output
IsStderrRedirect(l) == StartsWith(l, <<">&2", SP>>)
IsAssign(l) == l = <<"swiftStatus=$?">>
IsIf(l) == l = IF_LINE
IsElse(l) == l = <<"else">>
IsFi(l) == l = <<"fi">>
IsExit(l) == Len(l) = 3 /\ SubSeq(l, 1, 2) = <<"exit", SP>> /\ l[3] \in {"0", "1"}
ExitArg(l) == IF l[3] = "0" THEN 0 ELSE 1
IsCommand(l) ==
    ~(IsComment(l) \/ IsEcho(l) \/ IsFileRedirect(l) \/ IsStderrRedirect(l)
      \/ IsAssign(l) \/ IsIf(l) \/ IsElse(l) \/ IsFi(l) \/ IsExit(l))

\* the line of the "fi" closing the "if" whose body starts at line k
\* (depth = number of inner "if" still open), 0 when the file ends first
RECURSIVE FindFi(_, _, _)
FindFi(lines, k, depth) ==
    IF k > Len(lines) THEN 0
    ELSE IF IsIf(lines[k]) THEN FindFi(lines, k + 1, depth + 1)
    ELSE IF IsFi(lines[k])
         THEN IF depth = 0 THEN k ELSE FindFi(lines, k + 1, depth - 1)
    ELSE FindFi(lines, k + 1, depth)

\* the line of the "else" of that "if", 0 when it has none
RECURSIVE FindElse(_, _, _)
FindElse(lines, k, depth) ==
    IF k > Len(lines) THEN 0
    ELSE IF IsIf(lines[k]) THEN FindElse(lines, k + 1, depth + 1)
    ELSE IF IsFi(lines[k])
         THEN IF depth = 0 THEN 0 ELSE FindElse(lines, k + 1, depth - 1)
    ELSE IF IsElse(lines[k]) /\ depth = 0 THEN k
    ELSE FindElse(lines, k + 1, depth)

\* what echo prints for its words: quotes removed, $swiftStatus expanded
RECURSIVE EchoText(_, _)
EchoText(words, status) ==
    IF words = <<>> THEN <<>>
    ELSE LET w == Head(words)
             rest == EchoText(Tail(words), status)
         IN  IF w = DQ THEN rest
             ELSE IF w = "$swiftStatus"
                  THEN (IF status = <<>> THEN <<>> ELSE <<ToString(status[1])>>)
                       \o rest
             ELSE <<w>> \o rest

\* [[ "$swiftStatus" -eq "0" ]]: an unset variable evaluates to 0
StatusIsZero(status) == status = <<>> \/ status = <<0>>

\* ---- state ----------------------------------------------------------------
VARIABLES
    pc,                 \* position of the running process
    out,                \* captured output of the build tool
    buildInstructions,  \* out split into lines
    idx,                \* position of the for loop in buildInstructions
    compileCommand,
    linkCommand,
    console,            \* what the run printed
    exitStatus,         \* <<>> while running, <<n>> once exited
    script,             \* content of GENERATED_BUILD_SCRIPT
    fileMode,           \* its permission bits
    buildStatus,        \* exit status of the build tool in this run
    runs,               \* runs started so far
    history,            \* <<compileCommand, linkCommand>> of each run that wrote
    scriptAtStart,      \* script when the current run started
    modeAtStart,        \* fileMode when the current run started
    initialScript,      \* script before the first run
    shScript,           \* the lines of the file bash was started on
    shLine,             \* line bash executes next, 0 when bash is not running
    shStatus,           \* $?
    swiftStatus,        \* the shell variable, <<>> while unset
    shStdout,           \* lines the script printed on standard output
    shStderr,           \* lines printed on the error stream
    shExec,             \* <<command line, exit status>> of each command run
    shFiles,            \* files the script created by redirection
    shExit              \* <<>>, or <<n>> once bash has exited

procVars == <<pc, out, buildInstructions, idx, compileCommand, linkCommand,
              console, exitStatus, buildStatus>>
fileVars == <<script, fileMode>>
ghostVars == <<runs, history, scriptAtStart, modeAtStart, initialScript>>
shVars == <<shScript, shLine, shStatus, swiftStatus, shStdout, shStderr, shExec,
            shFiles, shExit>>
vars == <<procVars, fileVars, ghostVars, shVars>>

Init ==
    /\ pc = "start"
    /\ out = Unbound
    /\ buildInstructions = Unbound
    /\ idx = 0
    /\ compileCommand = Unbound
    /\ linkCommand = Unbound
    /\ console = <<>>
    /\ exitStatus = <<>>
    /\ script \in InitialScripts
    /\ fileMode = "unset"
    /\ buildStatus = 0
    /\ runs = 1
    /\ history = <<>>
    /\ scriptAtStart = script
    /\ modeAtStart = fileMode
    /\ initialScript = script
    /\ shScript = <<>>
    /\ shLine = 0
    /\ shStatus = 0
    /\ swiftStatus = <<>>
    /\ shStdout = <<>>
    /\ shStderr = <<>>
    /\ shExec = <<>>
    /\ shFiles = {}
    /\ shExit = <<>>

\* lines 29-30, check_output raising: the uncaught exception ends the run
BuildFail ==
    /\ pc = "start"
    /\ \E status \in BuildStatuses :
        /\ CheckOutputRaises(status)
        /\ buildStatus' = status
    /\ console' = Append(console, <<"Building action">>)
    /\ exitStatus' = <<1>>
    /\ pc' = "done"
    /\ UNCHANGED <<out, buildInstructions, idx, compileCommand, linkCommand,
                   fileVars, ghostVars, shVars>>

\* lines 29-37
BuildOk ==
    /\ pc = "start"
    /\ \E status \in BuildStatuses, trace \in Traces :
        /\ ~CheckOutputRaises(status)
        /\ buildStatus' = status
        /\ out' = JoinLines(trace)
        /\ buildInstructions' = splitlines(JoinLines(trace))
    /\ console' = console \o <<
           <<"Building action">>,
           <<"action built. Decoding compile and link commands">> >>
    /\ compileCommand' = None
    /\ linkCommand' = None
    /\ idx' = 1
    /\ pc' = "loop"
    /\ UNCHANGED <<exitStatus, fileVars, ghostVars, shVars>>

\* lines 39-47, one iteration
LoopIter ==
    /\ pc = "loop"
    /\ idx <= Len(buildInstructions)
    /\ LET r == ExtractStep(<<compileCommand, linkCommand>>,
                            buildInstructions[idx])
       IN  /\ compileCommand' = r[1]
           /\ linkCommand' = r[2]
    /\ idx' = idx + 1
    /\ UNCHANGED <<pc, out, buildInstructions, console, exitStatus,
                   buildStatus, fileVars, ghostVars, shVars>>

\* lines 50-70
GenerateScript ==
    /\ pc = "loop"
    /\ idx > Len(buildInstructions)
    /\ BothFound(compileCommand, linkCommand)
    /\ console' = console \o <<
           <<"Generated OpenWhisk Compile command: ">> \o compileCommand,
           <<"=========">>,
           <<"Generated OpenWhisk Link command: ">> \o linkCommand >>
    /\ script' = WriteAppend(script, ScriptBody(compileCommand, linkCommand))
    /\ fileMode' = MODE_EXEC
    /\ exitStatus' = <<0>>
    /\ history' = Append(history, <<compileCommand, linkCommand>>)
    /\ pc' = "done"
    /\ UNCHANGED <<out, buildInstructions, idx, compileCommand, linkCommand,
                   buildStatus, runs, scriptAtStart, modeAtStart,
                   initialScript, shVars>>

\* lines 71-73
ReportMissing ==
    /\ pc = "loop"
    /\ idx > Len(buildInstructions)
    /\ ~BothFound(compileCommand, linkCommand)
    /\ console' = Append(console,
           <<"Cannot generate build script: compile or link command not found">>)
    /\ exitStatus' = <<1>>
    /\ pc' = "done"
    /\ UNCHANGED <<out, buildInstructions, idx, compileCommand, linkCommand,
                   buildStatus, fileVars, ghostVars, shVars>>

\* sys.exit: the process is gone, and with it its variables and its console;
\* its exit status and the destination file remain
ProcessExit ==
    /\ pc = "done"
    /\ pc' = "idle"
    /\ out' = Unbound
    /\ buildInstructions' = Unbound
    /\ idx' = 0
    /\ compileCommand' = Unbound
    /\ linkCommand' = Unbound
    /\ console' = <<>>
    /\ UNCHANGED <<exitStatus, buildStatus, fileVars, ghostVars, shVars>>

\* the program is started again on the same destination file
NextRun ==
    /\ pc = "idle"
    /\ shLine = 0
    /\ runs < MaxRuns
    /\ pc' = "start"
    /\ exitStatus' = <<>>
    /\ buildStatus' = 0
    /\ runs' = runs + 1
    /\ scriptAtStart' = script
    /\ modeAtStart' = fileMode
    /\ shScript' = <<>>
    /\ shLine' = 0
    /\ shStatus' = 0
    /\ swiftStatus' = <<>>
    /\ shStdout' = <<>>
    /\ shStderr' = <<>>
    /\ shExec' = <<>>
    /\ shFiles' = {}
    /\ shExit' = <<>>
    /\ UNCHANGED <<out, buildInstructions, idx, compileCommand, linkCommand,
                   console, fileVars, history, initialScript>>

\* ---- executing the destination file with bash ------------------------------
Running == shLine >= 1 /\ shLine <= Len(shScript)
Cur == shScript[shLine]
pyVars == <<procVars, fileVars, ghostVars>>

\* the executable script is started after the run that wrote it has ended
ShStart ==
    /\ pc = "idle"
    /\ fileMode = MODE_EXEC
    /\ shLine = 0
    /\ shExit = <<>>
    /\ shScript' = ShLines(script)
    /\ shLine' = 1
    /\ UNCHANGED <<pyVars, shStatus, swiftStatus, shStdout, shStderr, shExec,
                   shFiles, shExit>>

\* the shebang, a comment or an empty line
ShComment ==
    /\ Running
    /\ IsComment(Cur)
    /\ shLine' = shLine + 1
    /\ UNCHANGED <<pyVars, shScript, shStatus, swiftStatus, shStdout, shStderr, shExec,
                   shFiles, shExit>>

\* echo ..., with or without a redirection in front of it
ShEcho ==
    /\ Running
    /\ \/ /\ IsEcho(Cur)
          /\ shStdout' = Append(shStdout,
                 EchoText(SubSeq(Cur, 3, Len(Cur)), swiftStatus))
          /\ UNCHANGED <<shStderr, shFiles>>
       \/ /\ IsFileRedirect(Cur)
          /\ IsEcho(SubSeq(Cur, 3, Len(Cur)))
          /\ shFiles' = shFiles \cup {"2"}
          /\ shStdout' = Append(shStdout,
                 EchoText(SubSeq(Cur, 5, Len(Cur)), swiftStatus))
          /\ UNCHANGED shStderr
       \/ /\ IsStderrRedirect(Cur)
          /\ IsEcho(SubSeq(Cur, 3, Len(Cur)))
          /\ shStderr' = Append(shStderr,
                 EchoText(SubSeq(Cur, 5, Len(Cur)), swiftStatus))
          /\ UNCHANGED <<shStdout, shFiles>>
    /\ shStatus' = 0
    /\ shLine' = shLine + 1
    /\ UNCHANGED <<pyVars, shScript, swiftStatus, shExec, shExit>>

\* swiftStatus=$?
ShAssign ==
    /\ Running
    /\ IsAssign(Cur)
    /\ swiftStatus' = <<shStatus>>
    /\ shStatus' = 0
    /\ shLine' = shLine + 1
    /\ UNCHANGED <<pyVars, shScript, shStdout, shStderr, shExec, shFiles, shExit>>

\* the compile or the link command: an external program, any exit status
ShCommand ==
    /\ Running
    /\ IsCommand(Cur)
    /\ \E st \in CmdStatuses :
        /\ shExec' = Append(shExec, <<Cur, st>>)
        /\ shStatus' = st
    /\ shLine' = shLine + 1
    /\ UNCHANGED <<pyVars, shScript, swiftStatus, shStdout, shStderr, shFiles, shExit>>

\* if [[ ... ]]; then: bash parses the whole statement up to its fi first
ShIf ==
    /\ Running
    /\ IsIf(Cur)
    /\ FindFi(shScript, shLine + 1, 0) # 0
    /\ LET lines == shScript
           fi == FindFi(lines, shLine + 1, 0)
           el == FindElse(lines, shLine + 1, 0)
       IN  IF StatusIsZero(swiftStatus)
           THEN shLine' = shLine + 1 /\ shStatus' = 0
           ELSE /\ shLine' = IF el # 0 THEN el + 1 ELSE fi
                /\ shStatus' = IF el # 0 THEN 1 ELSE 0
    /\ UNCHANGED <<pyVars, shScript, swiftStatus, shStdout, shStderr, shExec, shFiles,
                   shExit>>

\* an if statement that is not closed before the end of the file
ShSyntaxError ==
    /\ Running
    /\ IsIf(Cur)
    /\ FindFi(shScript, shLine + 1, 0) = 0
    /\ shStderr' = Append(shStderr, <<"syntax error: unexpected end of file">>)
    /\ shExit' = <<2>>
    /\ shLine' = 0
    /\ UNCHANGED <<pyVars, shScript, shStatus, swiftStatus, shStdout, shExec, shFiles>>

\* else is reached at the end of the then-branch: continue after the fi
ShElse ==
    /\ Running
    /\ IsElse(Cur)
    /\ shLine' = FindFi(shScript, shLine + 1, 0)
    /\ UNCHANGED <<pyVars, shScript, shStatus, swiftStatus, shStdout, shStderr, shExec,
                   shFiles, shExit>>

ShFi ==
    /\ Running
    /\ IsFi(Cur)
    /\ shLine' = shLine + 1
    /\ UNCHANGED <<pyVars, shScript, shStatus, swiftStatus, shStdout, shStderr, shExec,
                   shFiles, shExit>>

\* exit n
ShExit ==
    /\ Running
    /\ IsExit(Cur)
    /\ shExit' = <<ExitArg(Cur)>>
    /\ shLine' = 0
    /\ UNCHANGED <<pyVars, shScript, shStatus, swiftStatus, shStdout, shStderr, shExec,
                   shFiles>>

\* end of file: the script's status is that of its last command
ShEof ==
    /\ shLine > Len(shScript)
    /\ shExit' = <<shStatus>>
    /\ shLine' = 0
    /\ UNCHANGED <<pyVars, shScript, shStatus, swiftStatus, shStdout, shStderr, shExec,
                   shFiles>>

Next ==
    \/ BuildFail
    \/ BuildOk
    \/ LoopIter
    \/ GenerateScript
    \/ ReportMissing
    \/ ProcessExit
    \/ NextRun
    \/ ShStart
    \/ ShComment
    \/ ShEcho
    \/ ShAssign
    \/ ShCommand
    \/ ShIf
    \/ ShSyntaxError
    \/ ShElse
    \/ ShFi
    \/ ShExit
    \/ ShEof

Spec == Init /\ [][Next]_vars

\* bash, once started, runs the script to its end
ShNext ==
    \/ ShComment
    \/ ShEcho
    \/ ShAssign
    \/ ShCommand
    \/ ShIf
    \/ ShSyntaxError
    \/ ShElse
    \/ ShFi
    \/ ShExit
    \/ ShEof

FairSpec == Spec /\ WF_vars(ShNext)

\* ---- properties ------------------------------------------------------------
\* the run got a trace and has gone through all of it
Scanned == pc = "done" /\ buildStatus = 0

\* positions of the trace lines starting with prefix p
Matches(p) ==
    {k \in 1..Len(buildInstructions) : StartsWith(buildInstructions[k], p)}

Min(S) == CHOOSE k \in S : \A j \in S : k <= j
Max(S) == CHOOSE k \in S : \A j \in S : k >= j

RECURSIVE Reverse(_)
Reverse(q) == IF q = <<>> THEN <<>> ELSE Reverse(Tail(q)) \o <<Head(q)>>

\* the bodies of the runs in h, one after the other
RECURSIVE Bodies(_)
Bodies(h) ==
    IF h = <<>> THEN <<>>
    ELSE ScriptBody(Head(h)[1], Head(h)[2]) \o Bodies(Tail(h))

\* number of lines of ls satisfying the test
CountLines(ls, Test(_)) == Cardinality({k \in 1..Len(ls) : Test(ls[k])})

C2_MissingCommandNoScript ==
    /\ (Scanned /\ (Matches(COMPILE_PREFIX) = {} \/ Matches(LINKER_PREFIX) = {}))
         => (script = scriptAtStart /\ exitStatus = <<1>>)
    /\ (pc = "done" /\ exitStatus = <<0>>)
         => /\ script # scriptAtStart
            /\ script = scriptAtStart \o ScriptBody(compileCommand, linkCommand)
            /\ compileCommand # None
            /\ linkCommand # None

\* a run that found the link line only
C2_Witness ==
    /\ Scanned
    /\ Matches(COMPILE_PREFIX) = {}
    /\ Matches(LINKER_PREFIX) # {}
    /\ linkCommand = LinkLineA
    /\ exitStatus = <<1>>
    /\ runs = 2
    /\ scriptAtStart # initialScript

\* C4: for a trace with exactly one compile line and exactly one link line,
\* both commands are found, compileCommand is the compile line followed by the
\* suppress-warnings flag exactly once, and linkCommand is the link line.
C4_ExactlyOneEach ==
    (Scanned /\ Cardinality(Matches(COMPILE_PREFIX)) = 1
             /\ Cardinality(Matches(LINKER_PREFIX)) = 1)
      => LET c == buildInstructions[Min(Matches(COMPILE_PREFIX))]
             l == buildInstructions[Min(Matches(LINKER_PREFIX))]
         IN  /\ compileCommand # None
             /\ linkCommand # None
             /\ compileCommand = c \o SUPPRESS_FLAG
             /\ Len(SelectSeq(compileCommand, LAMBDA a : a = "-suppress-warnings"))
                  = 1 + Len(SelectSeq(c, LAMBDA a : a = "-suppress-warnings"))
             /\ linkCommand = l

C4_Witness ==
    /\ Scanned
    /\ Cardinality(Matches(COMPILE_PREFIX)) = 1
    /\ Cardinality(Matches(LINKER_PREFIX)) = 1
    /\ Len(buildInstructions) = 3
    /\ compileCommand = CompileLineA \o SUPPRESS_FLAG
    /\ linkCommand = LinkLineB

\* C5: every successful run appends one script body and leaves what the file
\* held before in place: after n successful runs the file is its initial
\* content followed by the n bodies in run order.
C5_AppendAccumulates ==
    /\ script = initialScript \o Bodies(history)
    /\ (pc = "done" /\ exitStatus = <<0>>)
         => /\ history # <<>>
            /\ history[Len(history)] = <<compileCommand, linkCommand>>
            /\ script = scriptAtStart \o ScriptBody(compileCommand, linkCommand)

\* two successful runs on the same trace, starting from an empty file
C5_Witness ==
    /\ pc = "done"
    /\ exitStatus = <<0>>
    /\ initialScript = <<>>
    /\ Len(history) = 2
    /\ history[1] = history[2]
    /\ script = Bodies(<<history[1]>>) \o Bodies(<<history[1]>>)

\* C6: when the build tool exits with a non-zero status the run ends at once:
\* no trace is decoded, no command is extracted, the destination file and its
\* mode are as at the start of the run, and the exit status is not 0.
C6_BuildFailureIsFatal ==
    buildStatus # 0 =>
        /\ pc \in {"done", "idle"}
        /\ buildInstructions = Unbound
        /\ compileCommand = Unbound
        /\ linkCommand = Unbound
        /\ script = scriptAtStart
        /\ fileMode = modeAtStart
        /\ exitStatus # <<>>
        /\ exitStatus # <<0>>

\* a failed build in a run that follows a successful one
C6_Witness ==
    /\ buildStatus # 0
    /\ pc = "done"
    /\ runs = 2
    /\ history # <<>>
    /\ fileMode = MODE_EXEC

\* C9: for a trace with one compile line and one link line the commands and
\* the written script are those of the trace in the opposite order, and no
\* trace line starts with both prefixes.
C9_OrderIndependent ==
    Scanned =>
        /\ Matches(COMPILE_PREFIX) \cap Matches(LINKER_PREFIX) = {}
        /\ (Cardinality(Matches(COMPILE_PREFIX)) = 1
            /\ Cardinality(Matches(LINKER_PREFIX)) = 1)
             => LET r == Extract(Reverse(buildInstructions))
                IN  /\ <<compileCommand, linkCommand>> = r
                    /\ BothFound(r[1], r[2])
                    /\ script = scriptAtStart \o ScriptBody(r[1], r[2])

\* the trace [link, compile]
C9_Witness ==
    /\ Scanned
    /\ buildInstructions = <<LinkLineA, CompileLineA>>
    /\ compileCommand = CompileLineA \o SUPPRESS_FLAG
    /\ linkCommand = LinkLineA
    /\ exitStatus = <<0>>

IsShebangLine(l) == l # <<>> /\ Head(l) = "#!/bin/bash"
IsFiShebangLine(l) == l = <<"fi", "#!/bin/bash">>
IsFiLine(l) == l = <<"fi">>

\* C10: a body ends with "fi" and no line terminator, so in a file holding n
\* bodies the "fi" of each body but the last shares its line with the
\* "#!/bin/bash" of the next one, and only the first body starts a line.
C10_BodiesShareLines ==
    history # <<>> =>
        LET ls == splitlines(script)
            n == Len(history)
        IN  /\ script[Len(script)] = "fi"
            /\ CountLines(ls, IsFiShebangLine) = n - 1
            /\ CountLines(ls, IsShebangLine) = 1
            /\ CountLines(ls, IsFiLine) = 1
            /\ IsFiLine(ls[Len(ls)])

C10_Witness ==
    /\ Len(history) = 2
    /\ CountLines(splitlines(script), IsFiShebangLine) = 1
    /\ pc = "idle"

\* ---- properties of the generated script --------------------------------------
Range(q) == {q[k] : k \in DOMAIN q}

\* the destination file holds the body of exactly one run
OneBody == Len(history) = 1

\* the first command bash ran (the compile command) returned st
CompileReturned(st) == shExec # <<>> /\ shExec[1][2] = st
CompileFailed == shExec # <<>> /\ shExec[1][2] # 0

\* in every state of the script's execution: the link command is the second
\* command run and follows a compile command that returned 0; after a non-zero
\* compile status nothing else is run and the exit status, once set, is 1
C3_SafeGate ==
    OneBody =>
        LET cc == history[1][1]
            lc == history[1][2]
        IN  /\ \A k \in 1..Len(shExec) :
                 shExec[k][1] = lc => (k = 2 /\ shExec[1] = <<cc, 0>>)
            /\ CompileFailed =>
                 /\ shExec = <<<<cc, shExec[1][2]>>>>
                 /\ shExit \in {<<>>, <<1>>}

\* C3: in the generated script (the body of one run) the link command runs
\* only after the compile command has returned 0; when the compile command
\* returns a non-zero status the link command is never run, and the script
\* ends with exit status 1.
C3_FailFastGate ==
    /\ []C3_SafeGate
    /\ (OneBody /\ CompileFailed) ~> (shExit = <<1>>)

\* the script has ended after a failed compile command
C3_Witness ==
    /\ OneBody
    /\ CompileFailed
    /\ shExit = <<1>>
    /\ Len(shExec) = 1

\* C7: in the branch taken on a non-zero compile status the script prints
\* "Action did not compile" on the error stream, not on standard output,
\* before it ends with exit status 1.
C7_MessageOnErrorStream ==
    (OneBody /\ CompileFailed /\ shExit # <<>>) =>
        /\ shExit = <<1>>
        /\ <<"Action did not compile">> \in Range(shStderr)
        /\ <<"Action did not compile">> \notin Range(shStdout)

\* C8: in a script of one body, when the compile command returns 0 the script
\* prints "Linking", then runs the link command and nothing after it, and
\* ends with the exit status of the link command.
C8_ExitStatusIsLinkStatus ==
    (OneBody /\ CompileReturned(0)) =>
        /\ Len(shExec) >= 2 =>
             /\ Len(shExec) = 2
             /\ shExec[2][1] = history[1][2]
             /\ <<"Linking">> \in Range(shStdout)
        /\ shExit # <<>> =>
             /\ Len(shExec) = 2
             /\ shExit = <<shExec[2][2]>>
             /\ shStderr = <<>>

\* the link command returned 2 and so did the script
C8_Witness ==
    /\ OneBody
    /\ CompileReturned(0)
    /\ Len(shExec) = 2
    /\ shExec[2] = <<history[1][2], 2>>
    /\ shExit = <<2>>

====
